---- MODULE Spec2Model ----
(***************************************************************************)
(* Model of library_system/services/library_manager.py: LibraryManager,    *)
(* an in-memory list of library resources (Book, EBook, Audiobook)         *)
(* mirrored to a storage file after every mutation.                        *)
(*                                                                         *)
(* Strings that are searched (title, author) are sequences of one-letter   *)
(* strings so that lower() and the substring test are computed; the other  *)
(* strings are atoms.  A resource object is a record whose field cls is    *)
(* the name of its class; a dict is a function from its keys.              *)
(***************************************************************************)
EXTENDS Integers, Sequences, FiniteSets, TLC

VARIABLES
    storage,      \* content of the storage file: a sequence of dicts
    resources,    \* self.resources
    pc,           \* "new": no manager yet; "ready": constructed; "failed": __init__ raised
    last,         \* the last call: [op, arg, outcome, result, save]
    writeFailed,  \* history: a storage write has failed since the manager was constructed
    onlyAdds,     \* history: constructed empty, and since then only add_resource calls with distinct ids
    addLog        \* history: the records of those add_resource calls, in call order

vars == <<storage, resources, pc, last, writeFailed, onlyAdds, addLog>>

----------------------------------------------------------------------------
(* Bounds *)

\* number of distinct resource identifiers in use
NumIds == 3
\* longest storage file found by the first construction
MaxFile == 2
\* longest sequence given to the save/load round trip
MaxCodecLen == 3

----------------------------------------------------------------------------
(* Values *)

IdNames == <<"b1", "e1", "a1", "x1", "y1">>

Ids == {IdNames[i] : i \in 1..NumIds}

ClassNames == <<"Book", "EBook", "Audiobook">>

Classes == {ClassNames[i] : i \in 1..3}

\* (title, author) pairs
Text1 == [title |-> <<"D", "u">>, author |-> <<"H", "e">>]

Text2 == [title |-> <<"h", "E", "x">>, author |-> <<"U", "d">>]

TextNames == <<Text1, Text2>>

Texts == {Text1, Text2}

Queries ==
    { <<>>, <<"d", "u">>, <<"D", "U">>, <<"u", "d">>, <<"H", "E">>, <<"x">>, <<"u", "x">> }

\* Python's None
None == [cls |-> "NoneType"]

CommonKeys == {"resource_id", "title", "author", "isbn", "page_count"}

EBookKeys == CommonKeys \cup {"file_size_mb", "file_format"}

AudiobookKeys == CommonKeys \cup {"duration_minutes", "narrator"}

\* restriction of a dict to some of its keys
Restrict(d, keys) == [k \in keys |-> d[k]]

\* Book(**kw): the keywords must be exactly the constructor's parameters
Book(kw) ==
    IF DOMAIN kw = CommonKeys
    THEN [err |-> "none", value |-> [cls |-> "Book"] @@ kw]
    ELSE [err |-> "TypeError"]

\* EBook(**kw)
EBook(kw) ==
    IF DOMAIN kw = EBookKeys
    THEN [err |-> "none", value |-> [cls |-> "EBook"] @@ kw]
    ELSE [err |-> "TypeError"]

\* Audiobook(**kw)
Audiobook(kw) ==
    IF DOMAIN kw = AudiobookKeys
    THEN [err |-> "none", value |-> [cls |-> "Audiobook"] @@ kw]
    ELSE [err |-> "TypeError"]

\* Book(...), EBook(...) and Audiobook(...) with the fixed standard number,
\* page count and variant attributes used throughout
MakeRecord(cls, i, t) ==
    CASE cls = "Book" ->
           Book([resource_id |-> i, title |-> t.title, author |-> t.author,
                 isbn |-> "978-0441013593", page_count |-> 412]).value
      [] cls = "EBook" ->
           EBook([resource_id |-> i, title |-> t.title, author |-> t.author,
                  isbn |-> "978-0441013593", page_count |-> 412,
                  file_size_mb |-> 3, file_format |-> "EPUB"]).value
      [] cls = "Audiobook" ->
           Audiobook([resource_id |-> i, title |-> t.title, author |-> t.author,
                      isbn |-> "978-0441013593", page_count |-> 0,
                      duration_minutes |-> 90, narrator |-> "N"]).value

\* the resource objects callers hand to add_resource: one per identifier, the
\* classes and texts taken in turn, and a second one, of another class and
\* text, for the first identifier
Records ==
    { MakeRecord(ClassNames[((k - 1) % 3) + 1], IdNames[k], TextNames[((k - 1) % 2) + 1])
        : k \in 1..NumIds }
    \cup { MakeRecord("EBook", IdNames[1], Text2) }

----------------------------------------------------------------------------
(* Pure functions *)

\* str.lower() on one letter
LowerChar(c) ==
    CASE c = "D" -> "d"
      [] c = "U" -> "u"
      [] c = "H" -> "h"
      [] c = "E" -> "e"
      [] c = "X" -> "x"
      [] OTHER -> c

\* str.lower()
Lower(s) == [i \in 1..Len(s) |-> LowerChar(s[i])]

\* q in s, for strings
Contains(q, s) ==
    \E i \in 0..(Len(s) - Len(q)) : SubSeq(s, i + 1, i + Len(q)) = q

\* any(r.resource_id == id for r in rs)
HasId(rs, id) == \E i \in 1..Len(rs) : rs[i].resource_id = id

\* get_resource: next((r for r in rs if r.resource_id == id), None)
GetResource(rs, id) ==
    IF HasId(rs, id)
    THEN rs[CHOOSE i \in 1..Len(rs) :
               /\ rs[i].resource_id = id
               /\ \A j \in 1..(i - 1) : rs[j].resource_id # id]
    ELSE None

\* a removal that drops the last item instead (list.pop())
ListRemove_Pop(rs, x) == SubSeq(rs, 1, Len(rs) - 1)

\* list.remove(x): drops the first item equal to x (the item itself, or one
\* equal to it in every attribute)
ListRemove(rs, x) ==
    LET i == CHOOSE k \in 1..Len(rs) : rs[k] = x /\ \A j \in 1..(k - 1) : rs[j] # x
    IN SubSeq(rs, 1, i - 1) \o SubSeq(rs, i + 1, Len(rs))

\* search_resources without query = query.lower()
SearchResources_RawQuery(rs, query) ==
    LET Match(r) == Contains(query, Lower(r.title)) \/ Contains(query, Lower(r.author))
    IN SelectSeq(rs, Match)

\* search_resources
SearchResources(rs, query) ==
    LET q == Lower(query)
        Match(r) == Contains(q, Lower(r.title)) \/ Contains(q, Lower(r.author))
    IN SelectSeq(rs, Match)

\* _resource_to_dict without the Audiobook branch
ResourceToDict_NoAudio(r) ==
    LET data == [type |-> r.cls, resource_id |-> r.resource_id, title |-> r.title,
                 author |-> r.author, isbn |-> r.isbn, page_count |-> r.page_count]
    IN IF r.cls = "EBook"
       THEN [file_size_mb |-> r.file_size_mb, file_format |-> r.file_format] @@ data
       ELSE data

\* _resource_to_dict
ResourceToDict(r) ==
    LET data == [type |-> r.cls, resource_id |-> r.resource_id, title |-> r.title,
                 author |-> r.author, isbn |-> r.isbn, page_count |-> r.page_count]
    IN IF r.cls = "EBook"
       THEN [file_size_mb |-> r.file_size_mb, file_format |-> r.file_format] @@ data
       ELSE IF r.cls = "Audiobook"
       THEN [duration_minutes |-> r.duration_minutes, narrator |-> r.narrator] @@ data
       ELSE data

\* _dict_to_resource
DictToResource(data) ==
    IF "type" \notin DOMAIN data
    THEN [err |-> "KeyError"]
    ELSE LET res_type == data["type"]
             rest == Restrict(data, DOMAIN data \ {"type"})
         IN IF res_type = "EBook" THEN EBook(rest)
            ELSE IF res_type = "Audiobook" THEN Audiobook(rest)
            ELSE IF res_type = "Book" THEN Book(rest)
            ELSE [err |-> "ValueError: Unknown resource type"]

\* the list comprehension of _save_resources
DumpResources(rs) == [i \in 1..Len(rs) |-> ResourceToDict(rs[i])]

\* the list comprehension of _load_resources: the first failing dict raises
LoadResources(data) ==
    LET conv == [i \in 1..Len(data) |-> DictToResource(data[i])]
        bad == {i \in 1..Len(data) : conv[i].err # "none"}
    IN IF bad = {}
       THEN [err |-> "none", value |-> [i \in 1..Len(data) |-> conv[i].value]]
       ELSE [err |-> conv[CHOOSE i \in bad : \A j \in bad : i <= j].err]

\* Storage.save_data: the file is fully overwritten, or the write fails and
\* the file keeps its content
SaveData(old, data, ok) == IF ok THEN data ELSE old

----------------------------------------------------------------------------
(* Storage files found by the first construction *)

\* a dict whose "type" key is missing
DropType(d) == Restrict(d, DOMAIN d \ {"type"})

\* a dict whose "type" names no known class
Retag(d) == [d EXCEPT !["type"] = "Magazine"]

FileDicts ==
    LET good == {ResourceToDict(r) : r \in Records}
    IN good \cup {DropType(d) : d \in good} \cup {Retag(d) : d \in good}

RECURSIVE SeqsUpTo(_, _)
\* the sequences over S of length at most n
SeqsUpTo(S, n) ==
    IF n = 0 THEN {<<>>}
    ELSE LET shorter == SeqsUpTo(S, n - 1)
         IN shorter \cup {Append(s, x) : s \in {t \in shorter : Len(t) = n - 1}, x \in S}

\* no two items of the sequence have the same resource_id
DistinctIds(s) ==
    \A i, j \in 1..Len(s) : s[i].resource_id = s[j].resource_id => i = j

InitFiles == {f \in SeqsUpTo(FileDicts, MaxFile) : DistinctIds(f)}

\* a call: its name, its argument, how it ended ("ok" or the exception),
\* what it returned, and what became of its _save_resources ("none": not called)
Call(op, arg, outcome, result, save) ==
    [op |-> op, arg |-> arg, outcome |-> outcome, result |-> result, save |-> save]

NoCall == Call("none", None, "none", None, "none")

----------------------------------------------------------------------------
(* Operations of LibraryManager *)

Init ==
    /\ storage \in InitFiles
    /\ resources = <<>>
    /\ pc = "new"
    /\ last = NoCall
    /\ writeFailed = FALSE
    /\ onlyAdds = FALSE
    /\ addLog = <<>>

\* __init__: a manager is constructed on the storage file (at start, or again
\* after the previous manager was dropped)
Construct ==
    /\ pc \in {"new", "ready"}
    /\ LET loaded == LoadResources(storage)
       IN IF loaded.err = "none"
          THEN /\ resources' = loaded.value
               /\ pc' = "ready"
               /\ last' = Call("init", None, "ok", None, "none")
               /\ onlyAdds' = (loaded.value = <<>>)
          ELSE /\ resources' = <<>>
               /\ pc' = "failed"
               /\ last' = Call("init", None, loaded.err, None, "none")
               /\ onlyAdds' = FALSE
    /\ writeFailed' = FALSE
    /\ addLog' = <<>>
    /\ UNCHANGED storage

\* the history of add_resource calls
LogAdd(r) ==
    IF onlyAdds /\ ~HasId(addLog, r.resource_id)
    THEN onlyAdds' = TRUE /\ addLog' = Append(addLog, r)
    ELSE onlyAdds' = FALSE /\ addLog' = <<>>

\* _save_resources as called by a mutating operation that ends with it;
\* ok: whether Storage.save_data succeeds
SaveResources(op, arg, ok) ==
    /\ storage' = SaveData(storage, DumpResources(resources'), ok)
    /\ last' = Call(op, arg, IF ok THEN "ok" ELSE "OSError", None,
                    IF ok THEN "ok" ELSE "failed")
    /\ writeFailed' = (writeFailed \/ ~ok)

\* add_resource without the identifier check
AddResource_NoCheck(r, ok) ==
    /\ pc = "ready"
    /\ resources' = Append(resources, r)
    /\ SaveResources("add", r, ok)
    /\ LogAdd(r)
    /\ UNCHANGED pc

\* add_resource that checks the identifier only after appending
AddResource_CheckLate(r, ok) ==
    /\ pc = "ready"
    /\ resources' = Append(resources, r)
    /\ IF HasId(resources, r.resource_id)
       THEN /\ last' = Call("add", r, "ValueError: already exists", None, "none")
            /\ UNCHANGED <<storage, writeFailed>>
       ELSE SaveResources("add", r, ok)
    /\ LogAdd(r)
    /\ UNCHANGED pc

\* add_resource that inserts at the front of the list
AddResource_Prepend(r, ok) ==
    /\ pc = "ready"
    /\ IF HasId(resources, r.resource_id)
       THEN /\ last' = Call("add", r, "ValueError: already exists", None, "none")
            /\ UNCHANGED <<resources, storage, writeFailed>>
       ELSE /\ resources' = <<r>> \o resources
            /\ SaveResources("add", r, ok)
    /\ LogAdd(r)
    /\ UNCHANGED pc

\* add_resource(resource); ok: whether Storage.save_data succeeds (when the
\* identifier is refused no write is attempted, and only ok = TRUE is kept)
AddResource(r, ok) ==
    /\ pc = "ready"
    /\ IF HasId(resources, r.resource_id)
       THEN /\ ok
            /\ last' = Call("add", r, "ValueError: already exists", None, "none")
            /\ UNCHANGED <<resources, storage, writeFailed>>
       ELSE /\ resources' = Append(resources, r)
            /\ SaveResources("add", r, ok)
    /\ LogAdd(r)
    /\ UNCHANGED pc

\* remove_resource that never calls _save_resources
RemoveResource_NoSave(id, ok) ==
    /\ pc = "ready"
    /\ ok
    /\ LET resource == GetResource(resources, id)
       IN /\ resources' = IF resource # None THEN ListRemove(resources, resource)
                          ELSE resources
          /\ last' = Call("remove", id, "ok", None, "none")
          /\ UNCHANGED <<storage, writeFailed>>
    /\ onlyAdds' = FALSE
    /\ addLog' = <<>>
    /\ UNCHANGED pc

\* remove_resource that calls _save_resources whether or not it removed
RemoveResource_AlwaysSave(id, ok) ==
    /\ pc = "ready"
    /\ LET resource == GetResource(resources, id)
       IN /\ resources' = IF resource # None THEN ListRemove(resources, resource)
                          ELSE resources
          /\ SaveResources("remove", id, ok)
    /\ onlyAdds' = FALSE
    /\ addLog' = <<>>
    /\ UNCHANGED pc

\* remove_resource(resource_id); ok: whether Storage.save_data succeeds (when
\* nothing is removed no write is attempted, and only ok = TRUE is kept)
RemoveResource(id, ok) ==
    /\ pc = "ready"
    /\ LET resource == GetResource(resources, id)
       IN IF resource # None
          THEN /\ resources' = ListRemove(resources, resource)
               /\ SaveResources("remove", id, ok)
          ELSE /\ ok
               /\ last' = Call("remove", id, "ok", None, "none")
               /\ UNCHANGED <<resources, storage, writeFailed>>
    /\ onlyAdds' = FALSE
    /\ addLog' = <<>>
    /\ UNCHANGED pc

\* get_resource(resource_id)
GetResourceCall(id) ==
    /\ pc = "ready"
    /\ last' = Call("get", id, "ok", GetResource(resources, id), "none")
    /\ UNCHANGED <<storage, resources, pc, writeFailed, onlyAdds, addLog>>

\* search_resources(query)
SearchResourcesCall(query) ==
    /\ pc = "ready"
    /\ last' = Call("search", query, "ok", SearchResources(resources, query), "none")
    /\ UNCHANGED <<storage, resources, pc, writeFailed, onlyAdds, addLog>>

\* get_all_resources()
GetAllResources ==
    /\ pc = "ready"
    /\ last' = Call("get_all", None, "ok", resources, "none")
    /\ UNCHANGED <<storage, resources, pc, writeFailed, onlyAdds, addLog>>

Add == \E r \in Records, ok \in BOOLEAN : AddResource(r, ok)

Remove == \E id \in Ids, ok \in BOOLEAN : RemoveResource(id, ok)

Get == \E id \in Ids : GetResourceCall(id)

Search == \E query \in Queries : SearchResourcesCall(query)

Next ==
    \/ Construct
    \/ Add
    \/ Remove
    \/ Get
    \/ Search
    \/ GetAllResources

Spec == Init /\ [][Next]_vars

----------------------------------------------------------------------------
(* The save/load round trip on its own: _save_resources' conversion of any  *)
(* list of resources, then _load_resources' conversion of the result.       *)

\* the resource objects given to the round trip: every class and text, two identifiers
CodecRecords == {MakeRecord(cls, i, t) : cls \in Classes, i \in {"b1", "e1"}, t \in Texts}

CodecInit ==
    /\ resources \in SeqsUpTo(CodecRecords, MaxCodecLen)
    /\ storage = <<>>
    /\ pc = "codec_in"
    /\ last = NoCall
    /\ writeFailed = FALSE
    /\ onlyAdds = FALSE
    /\ addLog = <<>>

\* _save_resources, the write succeeding
CodecSave ==
    /\ pc = "codec_in"
    /\ storage' = SaveData(storage, DumpResources(resources), TRUE)
    /\ pc' = "codec_saved"
    /\ UNCHANGED <<resources, last, writeFailed, onlyAdds, addLog>>

\* _load_resources on what was saved; the loaded list is kept in last.result
CodecLoad ==
    /\ pc = "codec_saved"
    /\ LET loaded == LoadResources(storage)
       IN last' = Call("load", None, IF loaded.err = "none" THEN "ok" ELSE loaded.err,
                       IF loaded.err = "none" THEN loaded.value ELSE None, "none")
    /\ pc' = "codec_loaded"
    /\ UNCHANGED <<storage, resources, writeFailed, onlyAdds, addLog>>

CodecNext ==
    \/ CodecSave
    \/ CodecLoad

SpecCodec == CodecInit /\ [][CodecNext]_vars

----------------------------------------------------------------------------
(* Properties *)

\* the serialization of the in-memory collection is the storage content
InSync == storage = DumpResources(resources)

\* C1: from a loaded collection with pairwise distinct identifiers, no sequence
\* of add_resource and remove_resource calls, failing or not, leaves two
\* records with the same resource_id in the collection.
C1_UniqueIds == DistinctIds(resources)

\* C1 witness: a full collection on which an add_resource was just refused
C1_Witness ==
    /\ pc = "ready"
    /\ Len(resources) >= 3
    /\ last.op = "add"
    /\ last.outcome = "ValueError: already exists"

\* C2: add_resource of a record whose identifier is already in the collection
\* fails with the duplicate-identifier error and leaves the collection and the
\* storage content as they were (no append, no storage write).
C2_DuplicateAddRejected ==
    [][(last'.op = "add" /\ HasId(resources, last'.arg.resource_id))
          => /\ last'.outcome = "ValueError: already exists"
             /\ last'.save = "none"
             /\ resources' = resources
             /\ storage' = storage]_vars

\* C2 witness: add(r1) then add(r2), r2 another record with r1's identifier,
\* was refused and the collection holds only r1
C2_Witness ==
    /\ last.op = "add"
    /\ last.outcome = "ValueError: already exists"
    /\ Len(resources) = 1
    /\ resources[1].resource_id = last.arg.resource_id
    /\ resources[1] # last.arg

\* C3: after an add_resource or remove_resource that returned normally having
\* changed the collection, the storage content is the serialization of the
\* whole collection in order; and as long as no write has failed, storage and
\* memory agree between operations.
C3_StorageMirrorsMemory ==
    pc = "ready" =>
        /\ (last.op \in {"add", "remove"} /\ last.outcome = "ok" /\ last.save = "ok")
              => InSync
        /\ ~writeFailed => InSync

\* C3 witness: a successful remove_resource rewrote storage after an earlier
\* write had failed
C3_Witness ==
    /\ pc = "ready"
    /\ last.op = "remove"
    /\ last.outcome = "ok"
    /\ last.save = "ok"
    /\ writeFailed
    /\ Len(resources) = 2

\* C4: after n add_resource calls with pairwise distinct identifiers on an
\* initially empty catalog, get_all_resources returns n records, the i-th
\* being the i-th record added.
C4_InsertionOrder ==
    (pc = "ready" /\ last.op = "get_all" /\ onlyAdds)
        => /\ Len(last.result) = Len(addLog)
           /\ \A i \in 1..Len(addLog) : last.result[i] = addLog[i]

\* C4 witness: get_all_resources after three such adds
C4_Witness ==
    /\ pc = "ready"
    /\ last.op = "get_all"
    /\ onlyAdds
    /\ Len(addLog) = 3

\* the records of rs other than those with identifier id, in order
Others(rs, id) ==
    LET Keep(r) == r.resource_id # id
    IN SelectSeq(rs, Keep)

\* C5: remove_resource of an identifier that is present removes exactly that
\* record: the collection is one shorter, the other records keep their
\* relative order, and get_resource of the identifier then returns None.
C5_RemovePresent ==
    [][(last'.op = "remove" /\ HasId(resources, last'.arg))
          => /\ Len(resources') = Len(resources) - 1
             /\ resources' = Others(resources, last'.arg)
             /\ GetResource(resources', last'.arg) = None]_vars

\* C5 witness: a record was removed from a collection of three
C5_Witness ==
    /\ pc = "ready"
    /\ last.op = "remove"
    /\ last.save # "none"
    /\ Len(resources) = 2
    /\ ~HasId(resources, last.arg)

\* C6: remove_resource of an identifier that is absent raises nothing, leaves
\* the collection as it was and does not write storage.
C6_RemoveAbsentNoOp ==
    [][(last'.op = "remove" /\ ~HasId(resources, last'.arg))
          => /\ last'.outcome = "ok"
             /\ last'.save = "none"
             /\ resources' = resources
             /\ storage' = storage]_vars

\* C6 witness: a remove_resource of an absent identifier on a non-empty
\* collection whose storage is stale
C6_Witness ==
    /\ pc = "ready"
    /\ last.op = "remove"
    /\ last.save = "none"
    /\ Len(resources) >= 1
    /\ ~InSync

\* the same letter, whatever the case
CasePairs == {<<"d", "D">>, <<"u", "U">>, <<"h", "H">>, <<"e", "E">>, <<"x", "X">>}

EqIgnoreCase(c, d) == c = d \/ <<c, d>> \in CasePairs \/ <<d, c>> \in CasePairs

\* q occurs in s at some offset, letters compared without regard to case
ContainsIgnoreCase(q, s) ==
    \E off \in 0..(Len(s) - Len(q)) :
        \A k \in 1..Len(q) : EqIgnoreCase(q[k], s[off + k])

\* the records whose title or author contains q case-insensitively, in order
Matching(rs, q) ==
    LET Hit(r) == ContainsIgnoreCase(q, r.title) \/ ContainsIgnoreCase(q, r.author)
    IN SelectSeq(rs, Hit)

\* two queries that differ at most in letter case
SameButCase(q1, q2) ==
    /\ Len(q1) = Len(q2)
    /\ \A k \in 1..Len(q1) : EqIgnoreCase(q1[k], q2[k])

\* C7: search_resources returns, in collection order, exactly the records whose
\* title or author contains the query case-insensitively; the empty query
\* returns every record, and queries differing only in case return the same.
C7_SearchCaseInsensitive ==
    pc = "ready" =>
        /\ last.op = "search" =>
              /\ last.result = Matching(resources, last.arg)
              /\ last.arg = <<>> => last.result = resources
        /\ \A q1, q2 \in Queries :
              SameButCase(q1, q2)
                 => SearchResources(resources, q1) = SearchResources(resources, q2)

\* C7 witness: an upper-case query matched some records but not all
C7_Witness ==
    /\ pc = "ready"
    /\ last.op = "search"
    /\ last.arg = <<"D", "U">>
    /\ Len(last.result) >= 1
    /\ Len(last.result) < Len(resources)

\* the same variant, common attributes and variant attributes
SameRecord(a, b) ==
    /\ a.cls = b.cls
    /\ \A k \in CommonKeys : a[k] = b[k]
    /\ a.cls = "EBook" =>
          a.file_size_mb = b.file_size_mb /\ a.file_format = b.file_format
    /\ a.cls = "Audiobook" =>
          a.duration_minutes = b.duration_minutes /\ a.narrator = b.narrator

\* C8: converting each record of a sequence with _resource_to_dict and each
\* dict back with _dict_to_resource gives a sequence of the same length and
\* order, each record of the same variant with the same attributes.
C8_RoundTrip ==
    pc = "codec_loaded" =>
        /\ last.outcome = "ok"
        /\ Len(last.result) = Len(resources)
        /\ \A i \in 1..Len(resources) : SameRecord(last.result[i], resources[i])

\* C8 witness: a round trip of a sequence holding all three variants
C8_Witness ==
    /\ pc = "codec_loaded"
    /\ last.op = "load"
    /\ {resources[i].cls : i \in 1..Len(resources)} = Classes

\* C9: a failed storage write leaves the collection as before the call, so the
\* collection and the storage content never diverge between operations.
C9_NeverDiverge == pc = "ready" => InSync

\* C10: a load that meets a record whose "type" is absent and one that meets
\* an unknown "type" fail with the same error, and no catalog results.
C10_SameErrorFatal ==
    (last.op = "init" /\ last.outcome # "ok")
        => /\ last.outcome = "ValueError: Unknown resource type"
           /\ pc = "failed"
           /\ resources = <<>>

====
